---- MODULE Spec2Model ----
(***************************************************************************)
(* NeutronTrader: the scheduled strategy-execution engine of the Electron  *)
(* main process (start-trading-bot / stop-trading-bot handlers, the        *)
(* node-schedule job callback, stopTradingBot, stopAllTradingBots,         *)
(* convertToCronSchedule, executeTradeStrategy and the SMA strategy) and   *)
(* the cache of StorageService that the handlers write to.                 *)
(*                                                                         *)
(* Every `await` of a handler is a point where other handlers and job      *)
(* callbacks may run, so each handler is cut into one action per segment   *)
(* between awaits.  StorageService.saveSetting / saveTrade update the      *)
(* in-memory cache at the call and then await saveData, which writes the   *)
(* file and rethrows any error of the write: the segment after the await   *)
(* runs when the write has completed, the handler's error path when it has *)
(* rejected.  `settings` and `trades` are the cache, which every later     *)
(* saveData writes out in full.                                            *)
(***************************************************************************)
EXTENDS Integers, Sequences, FiniteSets, TLC

\* ---------------------------------------------------------------- bounds
MaxStarts == 2      \* start-trading-bot requests handled in one run
MaxStops  == 2      \* stop-trading-bot requests handled in one run
MaxTicks  == 2      \* firings of recurring jobs in one run, all bots together
MaxTime   == 1      \* last value of the millisecond clock Date.now()
MaxInputs == 3      \* requests and job firings in one run, all together
MaxRequests == 4    \* requests in a run in which no job has fired
MaxFirings == 4     \* starts and job firings in a run whose starts all replied
MaxWriters == 3     \* concurrent saveSetting calls on the store

StartIds == 1..MaxStarts
StopIds  == 1..MaxStops
TickIds  == 1..MaxTicks
Times    == 0..MaxTime

\* ------------------------------------------------------- interval -> cron
Digits == <<"0", "1", "2", "3", "4", "5", "6", "7", "8", "9">>

IsDigit(c) == \E d \in 1..10 : Digits[d] = c

DigitVal(c) == (CHOOSE d \in 1..10 : Digits[d] = c) - 1

NaN == -1

\* parseInt(s, 10) on a sequence of characters: the value of the longest
\* prefix of decimal digits, NaN when the string does not start with a digit.
RECURSIVE ParseDigits(_, _, _)
ParseDigits(s, i, acc) ==
    IF i > Len(s) \/ ~IsDigit(s[i]) THEN acc
    ELSE ParseDigits(s, i + 1, acc * 10 + DigitVal(s[i]))

parseInt(s) ==
    IF Len(s) = 0 \/ ~IsDigit(s[1]) THEN NaN ELSE ParseDigits(s, 1, 0)

\* interval.slice(-1): the last character, "" for the empty string
SliceLast(s) == IF Len(s) = 0 THEN "" ELSE s[Len(s)]

\* interval.slice(0, -1): everything but the last character
SliceInit(s) == IF Len(s) = 0 THEN <<>> ELSE SubSeq(s, 1, Len(s) - 1)

DefaultCron == [field |-> "minute", every |-> 15]

convertToCronSchedule(interval) ==
    LET unit  == SliceLast(interval)
        value == parseInt(SliceInit(interval))
    IN  CASE unit = "m" -> [field |-> "minute", every |-> value]
          [] unit = "h" -> [field |-> "hour",   every |-> value]
          [] unit = "d" -> [field |-> "day",    every |-> value]
          [] OTHER      -> DefaultCron

\* schedule.scheduleJob(cron, fn) returns null when the cron expression
\* does not parse ("*/NaN", "*/0"); otherwise a live Job.
scheduleJob(cron) ==
    IF cron.every = NaN \/ cron.every = 0 THEN "null" ELSE "scheduled"

\* --------------------------------------------------------------- configs
I15m == <<"1", "5", "m">>
IBad == <<"s", "o", "o", "n">>
IXm  == <<"x", "m">>

\* A start request's payload.  present = FALSE is a null/undefined config;
\* apiConfig = FALSE, symbol = "", strategy = "" and amount = 0 are absent
\* (falsy) fields; hasInterval = FALSE is an undefined interval.
Cfg(api, sym, strat, amt, hasI, i) ==
    [present |-> TRUE, apiConfig |-> api, symbol |-> sym, strategy |-> strat,
     amount |-> amt, hasInterval |-> hasI, interval |-> i]

NullConfig ==
    [present |-> FALSE, apiConfig |-> FALSE, symbol |-> "", strategy |-> "",
     amount |-> 0, hasInterval |-> FALSE, interval |-> <<>>]

ValidConfig == Cfg(TRUE, "BNBUSDT", "simpleMovingAverage", 1, TRUE, I15m)

Configs ==
    { ValidConfig,
      Cfg(TRUE, "BNBUSDT", "momentumX", 1, TRUE, IBad),
      Cfg(TRUE, "BNBUSDT", "simpleMovingAverage", 1, TRUE, IXm),
      Cfg(TRUE, "BNBUSDT", "simpleMovingAverage", 1, FALSE, <<>>),
      Cfg(FALSE, "BNBUSDT", "simpleMovingAverage", 1, TRUE, I15m),
      Cfg(TRUE, "", "simpleMovingAverage", 1, TRUE, I15m),
      Cfg(TRUE, "BNBUSDT", "", 1, TRUE, I15m),
      NullConfig }

\* the handler's own validation
ConfigAccepted(config) ==
    ~(~config.present \/ ~config.apiConfig \/ config.symbol = ""
      \/ config.strategy = "")

\* const botId = `${config.symbol}-${Date.now()}`
MakeBotId(config, t) == <<config.symbol, t>>

NoBotId == <<"", 0>>

\* ------------------------------------------------------------ strategies
RECURSIVE SumSeq(_)
SumSeq(s) == IF Len(s) = 0 THEN 0 ELSE Head(s) + SumSeq(Tail(s))

\* Averages are kept as exact integers: every value is SMAScale times the
\* average the code computes (both periods, 5 and 20, divide SMAScale).
SMAScale == 20

ShortPeriod == 5

LongPeriod == 20

calculateSMA(prices, period) ==
    IF Len(prices) < period THEN <<>>
    ELSE [j \in 1..(Len(prices) - period + 1) |->
             SumSeq(SubSeq(prices, j, j + period - 1)) * (SMAScale \div period)]

\* the crossover with a strict comparison on the previous candle
executeSimpleMovingAverageStrict(closePrices) ==
    LET shortSMA == calculateSMA(closePrices, ShortPeriod)
        longSMA  == calculateSMA(closePrices, LongPeriod)
    IN  IF Len(shortSMA) < 2 \/ Len(longSMA) < 2
        THEN [action |-> "HOLD", reason |-> "Insufficient data for SMA calculation"]
        ELSE LET currentShort  == shortSMA[Len(shortSMA)]
                 previousShort == shortSMA[Len(shortSMA) - 1]
                 currentLong   == longSMA[Len(longSMA)]
                 previousLong  == longSMA[Len(longSMA) - 1]
             IN  IF previousShort < previousLong /\ currentShort > currentLong
                 THEN [action |-> "BUY", reason |-> "SMA bullish crossover detected"]
                 ELSE IF previousShort > previousLong /\ currentShort < currentLong
                 THEN [action |-> "SELL", reason |-> "SMA bearish crossover detected"]
                 ELSE [action |-> "HOLD", reason |-> "No SMA crossover signal"]

executeSimpleMovingAverage(closePrices) ==
    LET shortSMA == calculateSMA(closePrices, ShortPeriod)
        longSMA  == calculateSMA(closePrices, LongPeriod)
    IN  IF Len(shortSMA) < 2 \/ Len(longSMA) < 2
        THEN [action |-> "HOLD", reason |-> "Insufficient data for SMA calculation"]
        ELSE LET currentShort  == shortSMA[Len(shortSMA)]
                 previousShort == shortSMA[Len(shortSMA) - 1]
                 currentLong   == longSMA[Len(longSMA)]
                 previousLong  == longSMA[Len(longSMA) - 1]
             IN  IF previousShort <= previousLong /\ currentShort > currentLong
                 THEN [action |-> "BUY", reason |-> "SMA bullish crossover detected"]
                 ELSE IF previousShort >= previousLong /\ currentShort < currentLong
                 THEN [action |-> "SELL", reason |-> "SMA bearish crossover detected"]
                 ELSE [action |-> "HOLD", reason |-> "No SMA crossover signal"]

executeRSIStrategy(closePrices) ==
    [action |-> "HOLD", reason |-> "RSI strategy placeholder"]

executeBollingerBandsStrategy(closePrices, currentPrice) ==
    [action |-> "HOLD", reason |-> "Bollinger Bands strategy placeholder"]

\* ---- calculateRSI of utils/tradingStrategies.js
RSIPeriod == 14

RECURSIVE Power(_, _)
Power(b, n) == IF n = 0 THEN 1 ELSE b * Power(b, n - 1)

\* deltas, and gains / losses = deltas.map(...)
Deltas(prices) == [i \in 1..(Len(prices) - 1) |-> prices[i + 1] - prices[i]]

Gains(prices) ==
    [i \in 1..(Len(prices) - 1) |->
        IF Deltas(prices)[i] > 0 THEN Deltas(prices)[i] ELSE 0]

Losses(prices) ==
    [i \in 1..(Len(prices) - 1) |->
        IF Deltas(prices)[i] < 0 THEN -Deltas(prices)[i] ELSE 0]

\* series.slice(0, period): the first period elements, or all there are
SliceFirst(series, period) ==
    SubSeq(series, 1, IF Len(series) < period THEN Len(series) ELSE period)

\* avgGain / avgLoss after j rounds of the smoothing loop, times period^(j+1):
\* the sum of the first period values, then (avg * (period - 1) + x) / period
\* with x the value at index i - 1 of round i = period + j - 1
RECURSIVE Smoothed(_, _, _)
Smoothed(series, period, j) ==
    IF j = 0 THEN SumSeq(SliceFirst(series, period))
    ELSE (period - 1) * Smoothed(series, period, j - 1)
             + Power(period, j) * series[period + j - 1]

\* rsiValues: one value before the loop and one per round.  A value
\* 100 - 100 / (1 + avgGain / (avgLoss || 1)) is kept as the pair of avgGain
\* and (avgLoss || 1), both times period^(j+1).
calculateRSI(prices, period) ==
    LET rounds == IF Len(prices) > period THEN Len(prices) - period ELSE 0
    IN  [n \in 1..(rounds + 1) |->
            LET avgGain == Smoothed(Gains(prices), period, n - 1)
                avgLoss == Smoothed(Losses(prices), period, n - 1)
            IN  [gain |-> avgGain,
                 loss |-> IF avgLoss = 0 THEN Power(period, n) ELSE avgLoss]]

\* a strategy switch whose default case signals BUY
StrategySignalDefaultBuys(strategy, closePrices, currentPrice) ==
    CASE strategy = "simpleMovingAverage" -> executeSimpleMovingAverage(closePrices)
      [] strategy = "relativeStrengthIndex" -> executeRSIStrategy(closePrices)
      [] strategy = "bollingerBands" ->
             executeBollingerBandsStrategy(closePrices, currentPrice)
      [] OTHER -> [action |-> "BUY", reason |-> "Unknown strategy"]

\* the strategy switch of executeTradeStrategy
StrategySignal(strategy, closePrices, currentPrice) ==
    CASE strategy = "simpleMovingAverage" -> executeSimpleMovingAverage(closePrices)
      [] strategy = "relativeStrengthIndex" -> executeRSIStrategy(closePrices)
      [] strategy = "bollingerBands" ->
             executeBollingerBandsStrategy(closePrices, currentPrice)
      [] OTHER -> [action |-> "HOLD", reason |-> "Unknown strategy"]

\* Close prices the Gateway may answer a candles request with: a series that
\* is flat at FlatPrice for the first 20 candles and ends on `last`, and a
\* series too short for the long average.
FlatPrice == 10

WindowLen == 21

CandleSeries(last) == [i \in 1..WindowLen |-> IF i = WindowLen THEN last ELSE FlatPrice]

\* a series that rises by one with every candle
RisingSeries(first) == [i \in 1..WindowLen |-> first + i]

CandleWindows ==
    { CandleSeries(30), CandleSeries(2), CandleSeries(FlatPrice),
      <<FlatPrice, FlatPrice, FlatPrice>>,
      RisingSeries(0), RisingSeries(1), <<1, 2, 3>> }

\* the closes rise strictly from each candle to the next
IsRising(closePrices) ==
    \A i \in 1..(Len(closePrices) - 1) : closePrices[i] < closePrices[i + 1]

\* ------------------------------------------------- StorageService (cache)
Key(prefix, botId, t) == [prefix |-> prefix, botId |-> botId, t |-> t]

MapSet(map, k, v) == [x \in (DOMAIN map) \cup {k} |-> IF x = k THEN v ELSE map[x]]

EmptyMap == [x \in {} |-> 0]

\* ---------------------------------------------------------------- state
VARIABLES
    now,          \* Date.now()
    starts,       \* start-trading-bot handler invocations
    job,          \* the node-schedule Job each start created
    botState,     \* the botState object each start created
    activeBots,   \* the registry Map, in insertion order
    ticks,        \* invocations of each job's callback
    stops,        \* stop-trading-bot handler invocations
    settings,     \* storageService.cache.settings
    trades,       \* storageService.cache.trades
    events,       \* messages replied to the renderer, counted per bot
    candles,      \* close prices of the candles handed to a strategy
    strategyId,   \* config.strategy of that evaluation
    signal,       \* the signal the strategy switch produced for candles
    previous,     \* the signal it produced one candle earlier
    file,         \* the content of the database file (dbPath)
    tmpFile,      \* the content of dbPath + '.tmp', when it exists
    saves         \* saveSetting / saveTrade calls, each with its snapshot

engineVars == <<now, starts, job, botState, activeBots, ticks, stops, settings,
                trades, events>>

evalVars == <<candles, strategyId, signal, previous>>

storeVars == <<file, tmpFile, saves>>

vars == <<engineVars, evalVars, storeVars>>

\* no evaluation made
NoResult == [action |-> "", reason |-> ""]

NoSignal == ""

NoCheck == -1

FreshBotState ==
    [lastCheck |-> NoCheck, lastSignal |-> NoSignal, tradesExecuted |-> 0,
     totalProfit |-> 0, status |-> "active"]

IdleStart == [pc |-> "idle", config |-> NullConfig, botId |-> NoBotId]

IdleTick ==
    [pc |-> "idle", failed |-> FALSE, uncaught |-> FALSE, action |-> NoSignal,
     reason |-> "", rising |-> FALSE, orderPlaced |-> FALSE,
     tradeEv |-> 0, statusEv |-> 0, errorEv |-> 0]

IdleStop ==
    [pc |-> "idle", all |-> FALSE, botId |-> NoBotId, owner |-> 0,
     queue |-> <<>>, count |-> 0, stopped |-> {}, requested |-> {}]

NoEvents ==
    [started |-> 0, startError |-> 0, running |-> 0, tradeExecuted |-> 0,
     tickError |-> 0, stopped |-> 0]

EngineInit ==
    /\ now = 0
    /\ starts = [r \in StartIds |-> IdleStart]
    /\ job = [r \in StartIds |-> "none"]
    /\ botState = [r \in StartIds |-> FreshBotState]
    /\ activeBots = <<>>
    /\ ticks = [r \in StartIds |-> [k \in TickIds |-> IdleTick]]
    /\ stops = [s \in StopIds |-> IdleStop]
    /\ settings = EmptyMap
    /\ trades = EmptyMap
    /\ events = [r \in StartIds |-> NoEvents]

Writers == 1..MaxWriters

IdleSave == [pc |-> "idle", data |-> EmptyMap]

NoFile == [exists |-> FALSE, data |-> EmptyMap]

\* the database file holds what the cache holds and no save is under way
StoreInit ==
    /\ file = EmptyMap
    /\ tmpFile = NoFile
    /\ saves = [w \in Writers |-> IdleSave]

Init ==
    /\ EngineInit
    /\ StoreInit
    /\ candles = <<>>
    /\ strategyId = ""
    /\ signal = NoResult
    /\ previous = NoResult

\* the millisecond clock advances
ClockTick ==
    /\ now < MaxTime
    /\ now' = now + 1
    /\ UNCHANGED <<evalVars, storeVars, starts, job, botState, activeBots, ticks, stops, settings,
                   trades, events>>

\* ----------------------------------------------------------- the registry
RegistryIds == {activeBots[i].botId : i \in 1..Len(activeBots)}

RegistryIndex(botId) == CHOOSE i \in 1..Len(activeBots) : activeBots[i].botId = botId

RegistryGet(botId) == activeBots[RegistryIndex(botId)]

\* Map.set: a new key is appended, an existing key keeps its position
RegistrySet(botId, owner) ==
    IF botId \in RegistryIds
    THEN [activeBots EXCEPT ![RegistryIndex(botId)] = [botId |-> botId, owner |-> owner]]
    ELSE Append(activeBots, [botId |-> botId, owner |-> owner])

\* Map.delete
RegistryDelete(botId) ==
    LET keep == {i \in 1..Len(activeBots) : activeBots[i].botId # botId}
        Pos(n) == CHOOSE i \in keep : Cardinality({j \in keep : j <= i}) = n
    IN  [n \in 1..Cardinality(keep) |-> activeBots[Pos(n)]]

FiredTicks == Cardinality({x \in StartIds \X TickIds : ticks[x[1]][x[2]].pc # "idle"})

\* requests received so far
Requests ==
    Cardinality({r \in StartIds : starts[r].pc # "idle"})
    + Cardinality({s \in StopIds : stops[s].pc # "idle"})

\* requests received and job firings so far
Inputs == Requests + FiredTicks

\* the run takes another request
RequestFits ==
    IF FiredTicks = 0 THEN Requests < MaxRequests ELSE Inputs < MaxInputs

\* the run takes another job firing
FiringFits ==
    \/ Inputs < MaxInputs
    \/ /\ Inputs < MaxFirings
       /\ \A s \in StopIds : stops[s].pc = "idle"
       /\ \A r \in StartIds : starts[r].pc = "done"

\* -------------------------------------------------- start-trading-bot
Emit(r, kind) == [events EXCEPT ![r][kind] = @ + 1]

ConfigValue(config, botId) ==
    [config |-> config, botId |-> botId, status |-> "starting"]

ActiveBotValue(config, botId) ==
    [botId |-> botId, symbol |-> config.symbol, strategy |-> config.strategy,
     status |-> "active"]

\* handler entry: validation, botId, saveSetting(bot_config_<botId>)
StartBegin(r, config) ==
    /\ starts[r].pc = "idle"
    /\ \A q \in StartIds : q < r => starts[q].pc # "idle"
    /\ RequestFits
    /\ IF ~ConfigAccepted(config)
       THEN /\ starts' = [starts EXCEPT ![r].pc = "rejected"]
            /\ events' = Emit(r, "startError")
            /\ UNCHANGED settings
       ELSE LET botId == MakeBotId(config, now)
            IN  /\ starts' = [starts EXCEPT ![r] = [pc |-> "savingConfig", config |-> config,
                                                     botId |-> botId]]
                /\ settings' = MapSet(settings, Key("bot_config", botId, 0),
                                      ConfigValue(config, botId))
                /\ UNCHANGED events
    /\ UNCHANGED <<evalVars, storeVars, now, job, botState, activeBots, ticks, stops, trades>>

\* the catch block of withErrorHandling: saveSetting('lastError', ...), whose
\* own failure is caught and logged; the handler returns without a reply
withErrorHandling(operation) ==
    MapSet(settings, Key("lastError", NoBotId, 0), [operation |-> operation])

\* saveSetting(bot_config_<botId>) completed: BinanceAPI.accountInfo is called
StartConfigSaved(r) ==
    /\ starts[r].pc = "savingConfig"
    /\ starts' = [starts EXCEPT ![r].pc = "probing"]
    /\ UNCHANGED <<evalVars, storeVars, now, job, botState, activeBots, ticks, stops, settings, trades,
                   events>>

\* a saveSetting of the start handler rejects: withErrorHandling catches
StartSaveFailed(r) ==
    /\ starts[r].pc \in {"savingConfig", "savingActive"}
    /\ starts' = [starts EXCEPT ![r].pc = "crashed"]
    /\ settings' = withErrorHandling("start_trading_bot")
    /\ UNCHANGED <<evalVars, storeVars, now, job, botState, activeBots, ticks, stops, trades, events>>

\* the probe's catch block without its `return`: the handler replies
\* trading-error and goes on to schedule and register the bot
StartProbeFailNoReturn(r) ==
    /\ starts[r].pc = "probing"
    /\ starts' = [starts EXCEPT ![r].pc = "probeFailed"]
    /\ events' = Emit(r, "startError")
    /\ job' = [job EXCEPT ![r] = "scheduled"]
    /\ activeBots' = RegistrySet(starts[r].botId, r)
    /\ UNCHANGED <<evalVars, storeVars, now, botState, ticks, stops, settings, trades>>

\* BinanceAPI.accountInfo rejects: reply trading-error and return
StartProbeFail(r) ==
    /\ starts[r].pc = "probing"
    /\ starts' = [starts EXCEPT ![r].pc = "probeFailed"]
    /\ events' = Emit(r, "startError")
    /\ UNCHANGED <<evalVars, storeVars, now, job, botState, activeBots, ticks, stops, settings, trades>>

\* BinanceAPI.accountInfo resolves: cron conversion, botState, scheduleJob,
\* activeBots.set, saveSetting(active_bot_<botId>).  An undefined interval
\* makes interval.slice throw; withErrorHandling catches, saves lastError and
\* returns without replying.
StartProbeOk(r) ==
    /\ starts[r].pc = "probing"
    /\ LET config == starts[r].config
           botId  == starts[r].botId
       IN  IF ~config.hasInterval
           THEN /\ starts' = [starts EXCEPT ![r].pc = "crashed"]
                /\ settings' = withErrorHandling("start_trading_bot")
                /\ UNCHANGED <<job, botState, activeBots>>
           ELSE /\ starts' = [starts EXCEPT ![r].pc = "savingActive"]
                /\ job' = [job EXCEPT ![r] = scheduleJob(convertToCronSchedule(config.interval))]
                /\ botState' = [botState EXCEPT ![r] = FreshBotState]
                /\ activeBots' = RegistrySet(botId, r)
                /\ settings' = MapSet(settings, Key("active_bot", botId, 0),
                                      ActiveBotValue(config, botId))
    /\ UNCHANGED <<evalVars, storeVars, now, ticks, stops, trades, events>>

\* saveSetting(active_bot_<botId>) completed: reply trading-status 'started'
StartFinish(r) ==
    /\ starts[r].pc = "savingActive"
    /\ starts' = [starts EXCEPT ![r].pc = "done"]
    /\ events' = Emit(r, "started")
    /\ UNCHANGED <<evalVars, storeVars, now, job, botState, activeBots, ticks, stops, settings, trades>>

\* -------------------------------------------------- the job callback (tick)
StateValue(r, state) ==
    [config |-> starts[r].config, botId |-> starts[r].botId,
     lastCheck |-> state.lastCheck, lastSignal |-> state.lastSignal,
     tradesExecuted |-> state.tradesExecuted, totalProfit |-> state.totalProfit,
     status |-> state.status, stopTime |-> NoCheck]

TradeValue(r, action, t) ==
    [id |-> <<starts[r].botId, t>>, botId |-> starts[r].botId,
     symbol |-> starts[r].config.symbol, side |-> action,
     quantity |-> starts[r].config.amount, timestamp |-> t,
     strategy |-> starts[r].config.strategy, profit |-> 0,
     source |-> "trading_bot_auto"]

\* a scheduler that holds a firing back while any other tick is in flight
TickFireExclusive(r, k) ==
    /\ job[r] = "scheduled"
    /\ FiredTicks < MaxTicks
    /\ FiringFits
    /\ ticks[r][k].pc = "idle"
    /\ \A j \in TickIds : j < k => ticks[r][j].pc # "idle"
    /\ \A x \in StartIds, j \in TickIds : ticks[x][j].pc \in {"idle", "done"}
    /\ ticks' = [ticks EXCEPT ![r][k].pc = "fetching"]
    /\ UNCHANGED <<evalVars, storeVars, now, starts, job, botState, activeBots, stops, settings,
                   trades, events>>

\* the recurring trigger fires: the callback starts and awaits the Gateway
TickFire(r, k) ==
    /\ job[r] = "scheduled"
    /\ FiredTicks < MaxTicks
    /\ FiringFits
    /\ ticks[r][k].pc = "idle"
    /\ \A j \in TickIds : j < k => ticks[r][j].pc # "idle"
    /\ ticks' = [ticks EXCEPT ![r][k].pc = "fetching"]
    /\ UNCHANGED <<evalVars, storeVars, now, starts, job, botState, activeBots, stops, settings,
                   trades, events>>

\* executeTradeStrategy: prices and candles resolved, the strategy switch;
\* then the callback up to its first saveTrade / saveSetting
TickFetchOk(r, k, closePrices) ==
    /\ ticks[r][k].pc = "fetching"
    /\ LET result == StrategySignal(starts[r].config.strategy, closePrices,
                                    closePrices[Len(closePrices)])
           checked == [botState[r] EXCEPT !.lastCheck = now,
                                          !.lastSignal = result.action]
       IN  IF result.action # "HOLD"
           THEN /\ botState' = [botState EXCEPT ![r] =
                                   [checked EXCEPT !.tradesExecuted = @ + 1]]
                /\ trades' = MapSet(trades, <<starts[r].botId, now>>,
                                    TradeValue(r, result.action, now))
                /\ ticks' = [ticks EXCEPT ![r][k].pc = "savingTrade",
                                          ![r][k].action = result.action,
                                          ![r][k].reason = result.reason,
                                          ![r][k].rising = IsRising(closePrices)]
                /\ UNCHANGED settings
           ELSE /\ botState' = [botState EXCEPT ![r] = checked]
                /\ settings' = MapSet(settings, Key("bot_state", starts[r].botId, 0),
                                      StateValue(r, checked))
                /\ ticks' = [ticks EXCEPT ![r][k].pc = "savingState",
                                          ![r][k].action = result.action,
                                          ![r][k].reason = result.reason,
                                          ![r][k].rising = IsRising(closePrices)]
                /\ UNCHANGED trades
    /\ UNCHANGED <<evalVars, storeVars, now, starts, job, activeBots, stops, events>>

\* a catch block that also cancels the job
TickFetchFailCancels(r, k) ==
    /\ ticks[r][k].pc = "fetching"
    /\ ticks' = [ticks EXCEPT ![r][k].pc = "savingError", ![r][k].failed = TRUE]
    /\ settings' = MapSet(settings, Key("bot_error", starts[r].botId, now),
                          [botId |-> starts[r].botId, config |-> starts[r].config])
    /\ job' = [job EXCEPT ![r] = "cancelled"]
    /\ UNCHANGED <<evalVars, storeVars, now, starts, botState, activeBots, stops, trades, events>>

\* a Gateway call of executeTradeStrategy rejects: the catch block saves
\* bot_error_<botId>_<now>
TickFetchFail(r, k) ==
    /\ ticks[r][k].pc = "fetching"
    /\ ticks' = [ticks EXCEPT ![r][k].pc = "savingError", ![r][k].failed = TRUE]
    /\ settings' = MapSet(settings, Key("bot_error", starts[r].botId, now),
                          [botId |-> starts[r].botId, config |-> starts[r].config])
    /\ UNCHANGED <<evalVars, storeVars, now, starts, job, botState, activeBots, stops, trades, events>>

\* saveTrade or saveSetting(bot_state_<botId>) rejects: the catch block saves
\* bot_error_<botId>_<now>
TickSaveFailed(r, k) ==
    /\ ticks[r][k].pc \in {"savingTrade", "savingState"}
    /\ ticks' = [ticks EXCEPT ![r][k].pc = "savingError"]
    /\ settings' = MapSet(settings, Key("bot_error", starts[r].botId, now),
                          [botId |-> starts[r].botId, config |-> starts[r].config])
    /\ UNCHANGED <<evalVars, storeVars, now, starts, job, botState, activeBots, stops, trades, events>>

\* saveSetting(bot_error_...) rejects inside the catch block: the callback's
\* promise rejects and nothing is replied
TickErrorSaveFailed(r, k) ==
    /\ ticks[r][k].pc = "savingError"
    /\ ticks' = [ticks EXCEPT ![r][k].pc = "done", ![r][k].uncaught = TRUE]
    /\ UNCHANGED <<evalVars, storeVars, now, starts, job, botState, activeBots, stops, settings, trades,
                   events>>

\* saveTrade completed: reply trade-executed, saveSetting(bot_state_<botId>)
TickTradeSaved(r, k) ==
    /\ ticks[r][k].pc = "savingTrade"
    /\ ticks' = [ticks EXCEPT ![r][k].pc = "savingState", ![r][k].tradeEv = @ + 1]
    /\ events' = Emit(r, "tradeExecuted")
    /\ settings' = MapSet(settings, Key("bot_state", starts[r].botId, 0),
                          StateValue(r, botState[r]))
    /\ UNCHANGED <<evalVars, storeVars, now, starts, job, botState, activeBots, stops, trades>>

\* saveSetting(bot_state_<botId>) completed: reply trading-status 'running'
TickStateSaved(r, k) ==
    /\ ticks[r][k].pc = "savingState"
    /\ ticks' = [ticks EXCEPT ![r][k].pc = "done", ![r][k].statusEv = @ + 1]
    /\ events' = Emit(r, "running")
    /\ UNCHANGED <<evalVars, storeVars, now, starts, job, botState, activeBots, stops, settings, trades>>

\* saveSetting(bot_error_...) completed: reply trading-error
TickErrorSaved(r, k) ==
    /\ ticks[r][k].pc = "savingError"
    /\ ticks' = [ticks EXCEPT ![r][k].pc = "done", ![r][k].errorEv = @ + 1]
    /\ events' = Emit(r, "tickError")
    /\ UNCHANGED <<evalVars, storeVars, now, starts, job, botState, activeBots, stops, settings, trades>>

\* --------------------------------------------------- stop-trading-bot
\* `bot && bot.job` of stopTradingBot: the id is registered with a non-null job
Stoppable(botId) ==
    /\ botId \in RegistryIds
    /\ job[RegistryGet(botId).owner] # "null"

\* the final state without `status: 'stopped'`
FinalStateValueNoStatus(r, t) ==
    [StateValue(r, botState[r]) EXCEPT !.stopTime = t]

FinalStateValue(r, t) ==
    [StateValue(r, botState[r]) EXCEPT !.status = "stopped", !.stopTime = t]

\* the reply of the stop-trading-bot handler once stopTradingBot /
\* stopAllTradingBots has returned
StopReply(s, all, count, stopped) ==
    /\ stops' = [stops EXCEPT ![s].pc = IF all \/ count > 0 THEN "done" ELSE "notFound",
                              ![s].all = all,
                              ![s].botId = NoBotId,
                              ![s].owner = 0,
                              ![s].queue = <<>>,
                              ![s].count = count,
                              ![s].stopped = stopped,
                              ![s].requested = {}]
    /\ events' = [r \in StartIds |->
                     IF r \in stopped THEN [events[r] EXCEPT !.stopped = @ + 1]
                     ELSE events[r]]
    /\ UNCHANGED <<job, activeBots, settings>>

\* the bots in the registry when stop request s was made without a botId
\* (Array.from(activeBots.keys()) of stopAllTradingBots)
RegisteredOwners == {activeBots[i].owner : i \in 1..Len(activeBots)}

Requested(s, all) ==
    IF stops[s].pc # "idle" THEN stops[s].requested
    ELSE IF all THEN RegisteredOwners ELSE {}

\* stopTradingBot without the job.cancel() call
stopTradingBotNoCancel(s, all, botId, rest, count, stopped) ==
    LET owner == RegistryGet(botId).owner
    IN  /\ UNCHANGED job
        /\ activeBots' = RegistryDelete(botId)
        /\ settings' = MapSet(settings, Key("bot_final_state", botId, 0),
                              FinalStateValue(owner, now))
        /\ stops' = [stops EXCEPT ![s].pc = "savingFinal",
                                  ![s].all = all,
                                  ![s].botId = botId,
                                  ![s].owner = owner,
                                  ![s].queue = rest,
                                  ![s].count = count,
                                  ![s].stopped = stopped,
                                  ![s].requested = Requested(s, all)]
        /\ UNCHANGED events

\* stopTradingBot(botId) up to its first await: job.cancel(),
\* activeBots.delete, saveSetting(bot_final_state_<botId>)
stopTradingBot(s, all, botId, rest, count, stopped) ==
    LET owner == RegistryGet(botId).owner
    IN  /\ job' = [job EXCEPT ![owner] = "cancelled"]
        /\ activeBots' = RegistryDelete(botId)
        /\ settings' = MapSet(settings, Key("bot_final_state", botId, 0),
                              FinalStateValue(owner, now))
        /\ stops' = [stops EXCEPT ![s].pc = "savingFinal",
                                  ![s].all = all,
                                  ![s].botId = botId,
                                  ![s].owner = owner,
                                  ![s].queue = rest,
                                  ![s].count = count,
                                  ![s].stopped = stopped,
                                  ![s].requested = Requested(s, all)]
        /\ UNCHANGED events

\* The loop of stopAllTradingBots (a single id for stop(botId)): ids that
\* stopTradingBot returns false for are passed over without any I/O; the
\* first stoppable id is stopped; with none left the handler replies.
StopContinue(s, all, queue, count, stopped) ==
    LET hits == {i \in 1..Len(queue) : Stoppable(queue[i])}
    IN  IF hits = {}
        THEN StopReply(s, all, count, stopped)
        ELSE LET i == CHOOSE x \in hits : \A y \in hits : x <= y
             IN  stopTradingBot(s, all, queue[i], SubSeq(queue, i + 1, Len(queue)),
                                count, stopped)

\* botIds the renderer may name in a stop request
UnknownBotId == <<"ETHUSDT", 0>>

StopArgs == ({"BNBUSDT"} \X Times) \cup {UnknownBotId, NoBotId}

\* handler entry; botId = NoBotId is the request without a botId (stop all)
StopRequest(s, botId) ==
    /\ stops[s].pc = "idle"
    /\ \A q \in StopIds : q < s => stops[q].pc # "idle"
    /\ RequestFits
    /\ botId \in StopArgs
    /\ LET all == (botId = NoBotId)
           queue == IF all THEN [i \in 1..Len(activeBots) |-> activeBots[i].botId]
                    ELSE <<botId>>
       IN  StopContinue(s, all, queue, 0, {})
    /\ UNCHANGED <<evalVars, storeVars, now, starts, botState, ticks, trades>>

\* saveSetting(bot_final_state_<botId>) completed:
\* saveSetting(active_bot_<botId>, null)
StopFinalSaved(s) ==
    /\ stops[s].pc = "savingFinal"
    /\ stops' = [stops EXCEPT ![s].pc = "savingActive"]
    /\ settings' = MapSet(settings, Key("active_bot", stops[s].botId, 0),
                          [botId |-> stops[s].botId, status |-> "null"])
    /\ UNCHANGED <<evalVars, storeVars, now, starts, job, botState, activeBots, ticks, trades, events>>

\* saveSetting(active_bot_<botId>, null) completed: stopTradingBot returns
\* true; the caller counts it and goes on with the next id or replies
StopActiveSaved(s) ==
    /\ stops[s].pc = "savingActive"
    /\ StopContinue(s, stops[s].all, stops[s].queue, stops[s].count + 1,
                    stops[s].stopped \cup {stops[s].owner})
    /\ UNCHANGED <<evalVars, storeVars, now, starts, botState, ticks, trades>>

\* a saveSetting of stopTradingBot rejects: stopTradingBot and, around it,
\* stopAllTradingBots throw; withErrorHandling catches and nothing is replied
StopSaveFailed(s) ==
    /\ stops[s].pc \in {"savingFinal", "savingActive"}
    /\ stops' = [stops EXCEPT ![s].pc = "crashed",
                              ![s].botId = NoBotId,
                              ![s].owner = 0,
                              ![s].queue = <<>>,
                              ![s].stopped = @ \cup {stops[s].owner},
                              ![s].requested = {}]
    /\ settings' = withErrorHandling("stop_trading_bot")
    /\ UNCHANGED <<evalVars, storeVars, now, starts, job, botState, activeBots, ticks, trades, events>>

\* ------------------------------------------------------------------ Next
Next ==
    \/ ClockTick
    \/ \E r \in StartIds, config \in Configs : StartBegin(r, config)
    \/ \E r \in StartIds : StartConfigSaved(r)
    \/ \E r \in StartIds : StartSaveFailed(r)
    \/ \E r \in StartIds : StartProbeFail(r)
    \/ \E r \in StartIds : StartProbeOk(r)
    \/ \E r \in StartIds : StartFinish(r)
    \/ \E r \in StartIds, k \in TickIds : TickFire(r, k)
    \/ \E r \in StartIds, k \in TickIds, w \in CandleWindows : TickFetchOk(r, k, w)
    \/ \E r \in StartIds, k \in TickIds : TickFetchFail(r, k)
    \/ \E r \in StartIds, k \in TickIds : TickSaveFailed(r, k)
    \/ \E r \in StartIds, k \in TickIds : TickErrorSaveFailed(r, k)
    \/ \E r \in StartIds, k \in TickIds : TickTradeSaved(r, k)
    \/ \E r \in StartIds, k \in TickIds : TickStateSaved(r, k)
    \/ \E r \in StartIds, k \in TickIds : TickErrorSaved(r, k)
    \/ \E s \in StopIds, botId \in StopArgs : StopRequest(s, botId)
    \/ \E s \in StopIds : StopFinalSaved(s)
    \/ \E s \in StopIds : StopActiveSaved(s)
    \/ \E s \in StopIds : StopSaveFailed(s)

Spec == Init /\ [][Next]_vars

\* ------------------------------------------------- strategy evaluation
\* The strategy switch of executeTradeStrategy applied to candle windows on
\* their own: a window is drawn, evaluated, extended by the next candle and
\* evaluated again.
Closes == {2, FlatPrice, 30}

Flat(n) == [i \in 1..n |-> FlatPrice]

Tails ==
    {<<>>} \cup {<<a>> : a \in Closes} \cup {<<a, b>> : a \in Closes, b \in Closes}

PrefixLens == {0, 4, 12, 13, 18, 19, 20}

EvalWindows ==
    {Flat(n) \o t : n \in PrefixLens, t \in Tails}
        \cup {RisingSeries(0), RisingSeries(1), <<1, 2, 3>>}

Strategies ==
    {"simpleMovingAverage", "relativeStrengthIndex", "bollingerBands", "momentumX"}

\* parseFloat(priceResult.price): taken to be the last close
CurrentPrice == IF Len(candles) = 0 THEN FlatPrice ELSE candles[Len(candles)]

EvalInit ==
    /\ EngineInit
    /\ StoreInit
    /\ candles \in EvalWindows
    /\ strategyId \in Strategies
    /\ signal = NoResult
    /\ previous = NoResult

\* the strategy switch on the current window
Evaluate ==
    /\ signal = NoResult
    /\ signal' = StrategySignal(strategyId, candles, CurrentPrice)
    /\ UNCHANGED <<engineVars, storeVars, candles, strategyId, previous>>

\* the Gateway's next answer holds one more candle
NextCandle(close) ==
    /\ signal # NoResult
    /\ previous = NoResult
    /\ candles' = Append(candles, close)
    /\ previous' = signal
    /\ signal' = NoResult
    /\ UNCHANGED <<engineVars, storeVars, strategyId>>

EvalNext ==
    \/ Evaluate
    \/ \E close \in Closes \cup {CurrentPrice + 1} : NextCandle(close)

EvalSpec == EvalInit /\ [][EvalNext]_vars

\* ------------------------------------------------------- StorageService
\* the key the w-th caller writes: the state key of its own bot
WriterKey(w) == Key("bot_state", <<"BNBUSDT", w>>, 0)

\* saveSetting(key, value): cache.settings.set, then saveData builds its
\* snapshot of the cache and awaits createBackup
SaveBegin(w) ==
    /\ saves[w].pc = "idle"
    /\ settings' = MapSet(settings, WriterKey(w), w)
    /\ saves' = [saves EXCEPT ![w] = [pc |-> "backup", data |-> settings']]
    /\ UNCHANGED <<evalVars, file, tmpFile, now, starts, job, botState, activeBots, ticks,
                   stops, trades, events>>

\* createBackup returned (its own errors are swallowed): fs.writeFile is called
BackupDone(w) ==
    /\ saves[w].pc = "backup"
    /\ saves' = [saves EXCEPT ![w].pc = "writing"]
    /\ UNCHANGED <<engineVars, evalVars, file, tmpFile>>

\* fs.writeFile(dbPath + '.tmp', snapshot) completed: fs.rename is called
WriteTmp(w) ==
    /\ saves[w].pc = "writing"
    /\ tmpFile' = [exists |-> TRUE, data |-> saves[w].data]
    /\ saves' = [saves EXCEPT ![w].pc = "renaming"]
    /\ UNCHANGED <<engineVars, evalVars, file>>

\* fs.rename(dbPath + '.tmp', dbPath): moves whatever the temporary file
\* holds now; with no temporary file it rejects and saveData rethrows
RenameTmp(w) ==
    /\ saves[w].pc = "renaming"
    /\ IF tmpFile.exists
       THEN /\ file' = tmpFile.data
            /\ tmpFile' = NoFile
            /\ saves' = [saves EXCEPT ![w].pc = "done"]
       ELSE /\ saves' = [saves EXCEPT ![w].pc = "failed"]
            /\ UNCHANGED <<file, tmpFile>>
    /\ UNCHANGED <<engineVars, evalVars>>

StoreNext ==
    \/ \E w \in Writers : SaveBegin(w)
    \/ \E w \in Writers : BackupDone(w)
    \/ \E w \in Writers : WriteTmp(w)
    \/ \E w \in Writers : RenameTmp(w)

StoreSpec == Init /\ [][StoreNext]_vars

\* ================================================================ claims
InFlight(r, k) == ticks[r][k].pc \notin {"idle", "done"}

\* the stop handler has run stopTradingBot's cancel-and-delete on bot r
StoppedBy(r) == \E s \in StopIds : stops[s].owner = r \/ r \in stops[s].stopped

\* everything started for bot r has run to its end
Quiescent(r) ==
    /\ \A k \in TickIds : ~InFlight(r, k)
    /\ \A s \in StopIds : stops[s].owner # r

TradesOf(botId) == {id \in DOMAIN trades : trades[id].botId = botId}

\* C1: two ticks of one bot never execute concurrently: at any time at most
\* one invocation of a bot's job callback is between its start and its end.
C1_NoOverlappingTicks ==
    \A r \in StartIds : \A j, k \in TickIds :
        InFlight(r, j) /\ InFlight(r, k) => j = k

\* C2: a stop requested while a tick is in flight is applied only after that
\* tick has persisted (stopTradingBot acts on a bot none of whose ticks is in
\* flight), and once the bot is stopped and nothing of it is running, the
\* persisted stopped state counts every TradeRecord persisted for the bot.
C2_StopAfterTickPersisted ==
    /\ [][\A s \in StopIds :
             stops'[s].pc = "savingFinal" /\ stops[s].pc # "savingFinal" =>
                 \A k \in TickIds : ~InFlight(stops'[s].owner, k)]_vars
    /\ [](\A r \in StartIds :
             StoppedBy(r) /\ Quiescent(r) =>
                 LET key == Key("bot_final_state", starts[r].botId, 0)
                 IN  /\ key \in DOMAIN settings
                     /\ settings[key].status = "stopped"
                     /\ settings[key].tradesExecuted
                            >= Cardinality(TradesOf(starts[r].botId)))

\* C3: once a bot's stopped status has been reported, no further status,
\* trade-executed or error event is emitted for it.
C3_NoEventAfterStopped ==
    [][\A r \in StartIds : events[r].stopped > 0 => events'[r] = events[r]]_vars

\* C4: after stop has cancelled a registered bot's trigger, no new tick of
\* that bot starts and the trigger stays cancelled.
C4_NoTickAfterStop ==
    [][\A r \in StartIds :
          StoppedBy(r) =>
              /\ job[r] = "cancelled" /\ job'[r] = "cancelled"
              /\ \A k \in TickIds :
                     ticks[r][k].pc = "idle" => ticks'[r][k].pc = "idle"]_vars

\* C4 witness: a bot has been stopped while the run could still take a firing
\* of a job (another request or firing fits the run's budget)
C4_Witness ==
    \E r \in StartIds :
        /\ StoppedBy(r)
        /\ ticks[r][1].pc = "idle"
        /\ FiredTicks < MaxTicks
        /\ Inputs < MaxInputs

\* C5: a TradeRecord is persisted, tradesExecuted incremented and
\* trade-executed emitted only in a tick with a BUY or SELL signal in which a
\* Gateway market order was placed earlier.
C5_TradeOnlyAfterOrder ==
    \A r \in StartIds : \A k \in TickIds :
        (ticks[r][k].pc = "savingTrade" \/ ticks[r][k].tradeEv > 0) =>
            /\ ticks[r][k].action \in {"BUY", "SELL"}
            /\ ticks[r][k].orderPlaced

\* the fields BotConfig requires: credentials, symbol, strategy id, a
\* positive amount and an interval
RequiredFieldsPresent(config) ==
    /\ config.present /\ config.apiConfig
    /\ config.symbol # "" /\ config.strategy # ""
    /\ config.amount > 0 /\ config.hasInterval

\* C6: a start whose config lacks a required field is rejected with an error
\* event and has no side effects: store, registry and schedules are unchanged
\* by the request and the Gateway is not called (the handler ends at once).
C6_InvalidConfigRejected ==
    [][\A r \in StartIds :
          starts[r].pc = "idle" /\ starts'[r].pc # "idle"
          /\ ~RequiredFieldsPresent(starts'[r].config) =>
              /\ starts'[r].pc = "rejected"
              /\ events'[r].startError = 1
              /\ settings' = settings /\ trades' = trades
              /\ activeBots' = activeBots /\ job' = job]_vars

OwnsEntry(r) == \E i \in 1..Len(activeBots) : activeBots[i].owner = r

\* C7: a start whose connectivity probe fails emits an error event, leaves
\* the registry and the schedules as they are, and the bot it was starting
\* is never registered, never scheduled and never runs a tick.
C7_ProbeFailureRegistersNothing ==
    /\ [][\A r \in StartIds :
             starts[r].pc = "probing" /\ starts'[r].pc = "probeFailed" =>
                 /\ events'[r].startError = events[r].startError + 1
                 /\ activeBots' = activeBots /\ job' = job]_vars
    /\ [](\A r \in StartIds :
             starts[r].pc = "probeFailed" =>
                 /\ job[r] = "none"
                 /\ ~OwnsEntry(r)
                 /\ \A k \in TickIds : ticks[r][k].pc = "idle"
                 /\ events[r].started = 0)

\* C7 witness: a probe has failed and the run could still take a job firing
C7_Witness ==
    \E r \in StartIds :
        /\ starts[r].pc = "probeFailed"
        /\ events[r].startError = 1
        /\ FiredTicks < MaxTicks
        /\ Inputs < MaxInputs

\* a step of tick k of bot r on its failure path (the catch block)
FailureStep(r, k) ==
    /\ ticks'[r][k] # ticks[r][k]
    /\ ticks'[r][k].failed

\* C8: a tick that fails on a Gateway call does not cancel the trigger: it
\* leaves the job, the registry and the bot's active status as they are, and
\* the next firing of a job that was not stopped still starts a tick.
C8_FailedTickKeepsSchedule ==
    /\ [][\A r \in StartIds : \A k \in TickIds :
             FailureStep(r, k) =>
                 /\ job' = job /\ activeBots' = activeBots
                 /\ botState'[r].status = "active"]_vars
    /\ [](\A r \in StartIds :
             (\E k \in TickIds : ticks[r][k].failed) /\ ~StoppedBy(r) =>
                 /\ job[r] = "scheduled"
                 /\ botState[r].status = "active"
                 /\ \A k \in TickIds :
                        (/\ ticks[r][k].pc = "idle"
                         /\ \A j \in TickIds : j < k => ticks[r][j].pc # "idle"
                         /\ FiredTicks < MaxTicks /\ Inputs < MaxInputs)
                            => ENABLED TickFire(r, k))

\* C8 witness: a bot's first tick has failed and ended, and its job can fire
\* the second
C8_Witness ==
    \E r \in StartIds :
        /\ ticks[r][1].pc = "done" /\ ticks[r][1].failed
        /\ OwnsEntry(r)
        /\ ticks[r][2].pc = "idle"
        /\ ENABLED TickFire(r, 2)

\* C9: a tick in which a Gateway call fails leaves tradesExecuted and
\* totalProfit unchanged, emits no trade-executed (nor running-status) event
\* and, by its end, exactly one error event for its bot.
C9_FailedTickCountsNothing ==
    /\ [][\A r \in StartIds : \A k \in TickIds :
             FailureStep(r, k) =>
                 /\ botState'[r].tradesExecuted = botState[r].tradesExecuted
                 /\ botState'[r].totalProfit = botState[r].totalProfit
                 /\ events'[r].tradeExecuted = events[r].tradeExecuted
                 /\ events'[r].tickError - events[r].tickError
                        = ticks'[r][k].errorEv - ticks[r][k].errorEv]_vars
    /\ [](\A r \in StartIds : \A k \in TickIds :
             ticks[r][k].failed =>
                 /\ ticks[r][k].tradeEv = 0
                 /\ ticks[r][k].statusEv = 0
                 /\ ticks[r][k].errorEv = IF ticks[r][k].pc = "done" THEN 1 ELSE 0)

\* C10: stopping a started bot before any of its ticks has fired persists a
\* BotState for its BotId with status stopped, the stop timestamp set and
\* tradesExecuted = 0.
C10_StopBeforeFirstTick ==
    [][\A s \in StopIds :
          (/\ stops'[s].pc = "savingFinal" /\ stops[s].pc # "savingFinal"
           /\ \A k \in TickIds : ticks[stops'[s].owner][k].pc = "idle") =>
              LET key == Key("bot_final_state", stops'[s].botId, 0)
              IN  /\ key \in DOMAIN settings'
                  /\ settings'[key].botId = starts[stops'[s].owner].botId
                  /\ settings'[key].status = "stopped"
                  /\ settings'[key].stopTime = now
                  /\ settings'[key].tradesExecuted = 0]_vars

\* C10 witness: a bot was started and stopped with none of its ticks fired,
\* and its stopped state is in the store
C10_Witness ==
    \E s \in StopIds :
        /\ stops[s].pc = "savingFinal"
        /\ starts[stops[s].owner].pc = "done"
        /\ \A k \in TickIds : ticks[stops[s].owner][k].pc = "idle"
        /\ Key("bot_final_state", stops[s].botId, 0) \in DOMAIN settings
        /\ settings[Key("bot_final_state", stops[s].botId, 0)].status = "stopped"

\* C11: a stop request without a botId stops every bot that is registered
\* (with a live trigger) when the request is made and returns their number;
\* when it replies, none of those bots is in the registry or still scheduled.
C11_StopAllStopsEveryBot ==
    [][\A s \in StopIds :
          stops[s].pc # "done" /\ stops'[s].pc = "done" /\ stops'[s].all =>
              LET req == {r \in Requested(s, TRUE) : job[r] # "null"}
              IN  /\ stops'[s].count = Cardinality(req)
                  /\ \A r \in req :
                         /\ job'[r] # "scheduled"
                         /\ \A i \in 1..Len(activeBots') : activeBots'[i].owner # r]_vars

\* C12: stop(botId) returns true exactly when botId is in the registry at
\* the time of the call, and at most once per bot; for an unknown or already
\* stopped botId it returns false and leaves the registry, every schedule
\* and the store unchanged.
C12_StopReturnsRegistered ==
    /\ [][\A s \in StopIds : \A botId \in StopArgs \ {NoBotId} :
             StopRequest(s, botId) =>
                 IF botId \in RegistryIds
                 THEN stops'[s].pc = "savingFinal" /\ stops'[s].botId = botId
                 ELSE /\ stops'[s].pc = "notFound"
                      /\ activeBots' = activeBots /\ job' = job
                      /\ settings' = settings /\ trades' = trades]_vars
    /\ [](\A r \in StartIds :
             Cardinality({s \in StopIds :
                             stops[s].owner = r \/ r \in stops[s].stopped}) <= 1)

\* a start that has been given a BotId
Issued(r) == starts[r].pc \notin {"idle", "rejected"}

\* C13: every start yields a BotId distinct from every BotId issued earlier,
\* so registering a bot never overwrites another bot's registry entry or
\* persisted keys.
C13_UniqueBotIds ==
    /\ [](\A q, r \in StartIds :
             Issued(q) /\ Issued(r) /\ q # r => starts[q].botId # starts[r].botId)
    /\ [][\A r \in StartIds :
             starts[r].pc = "idle" /\ Issued(r)' =>
                 Key("bot_config", starts'[r].botId, 0) \notin DOMAIN settings]_vars

\* a stored value that carries the start request's config together with its
\* apiConfig ({apiKey, apiSecret} as the renderer sent them)
HoldsCredentials(value) ==
    "config" \in DOMAIN value /\ value.config.apiConfig

\* C14: no value written to the Key-Value Store by start, a tick, tick-error
\* handling or stop contains the Gateway credentials in cleartext.
C14_NoCredentialsStored ==
    /\ \A k \in DOMAIN settings : ~HoldsCredentials(settings[k])
    /\ \A id \in DOMAIN trades : ~HoldsCredentials(trades[id])

\* the durations BotConfig.interval names
RecognizedIntervals ==
    { <<"1", "m">>, <<"5", "m">>, <<"1", "5", "m">>, <<"1", "h">>, <<"4", "h">>,
      <<"1", "d">> }

\* C15: for every interval string that is not one of 1m, 5m, 15m, 1h, 4h, 1d,
\* start does not fail and the bot's recurring trigger is scheduled with the
\* 15-minute default.
C15_UnrecognizedIntervalDefaults ==
    [][\A r \in StartIds :
          (/\ starts[r].pc = "probing"
           /\ starts'[r].pc \notin {"probing", "probeFailed"}
           /\ starts[r].config.hasInterval
           /\ starts[r].config.interval \notin RecognizedIntervals) =>
              /\ starts'[r].pc = "savingActive"
              /\ job'[r] = "scheduled"
              /\ convertToCronSchedule(starts[r].config.interval) = DefaultCron]_vars

\* the candles a built-in strategy needs (its lookback): the long average
\* of the crossover, the period of the oscillator, the window of the bands
RequiredLookback(strategy) ==
    CASE strategy = "simpleMovingAverage" -> LongPeriod
      [] strategy = "relativeStrengthIndex" -> RSIPeriod
      [] strategy = "bollingerBands" -> 20

BuiltInStrategies == {"simpleMovingAverage", "relativeStrengthIndex", "bollingerBands"}

\* the reasons of the strategies that contain "insufficient data" (letter
\* case ignored)
ContainsInsufficientData(reason) ==
    reason \in {"Insufficient data for SMA calculation"}

\* C16: for each built-in strategy, evaluating a candle window shorter than
\* that strategy's required lookback returns HOLD with a reason containing
\* "insufficient data".
C16_ShortWindowInsufficientData ==
    (/\ signal # NoResult
     /\ strategyId \in BuiltInStrategies
     /\ Len(candles) < RequiredLookback(strategyId)) =>
        /\ signal.action = "HOLD"
        /\ ContainsInsufficientData(signal.reason)

\* the sum of the n closes that end at candle k
ClosesSum(k, n) == SumSeq(SubSeq(candles, k - n + 1, k))

\* the short average is above (1), at (0) or below (-1) the long average at
\* candle k: 5-candle and 20-candle means compared over the common
\* denominator 20
ShortVsLong(k) ==
    LET short == 4 * ClosesSum(k, 5)
        long  == ClosesSum(k, 20)
    IN  IF short > long THEN 1 ELSE IF short < long THEN -1 ELSE 0

CrossingUp(k) == ShortVsLong(k - 1) <= 0 /\ ShortVsLong(k) > 0

CrossingDown(k) == ShortVsLong(k - 1) >= 0 /\ ShortVsLong(k) < 0

\* C17: on any window of at least 21 candles the crossover evaluator returns
\* BUY exactly when the short average was <= the long average on the
\* previous candle and is > it on the current candle, SELL exactly on the
\* symmetric crossing-down and HOLD otherwise; and where it returns BUY for
\* the window ending at candle k it did not return BUY for the window ending
\* at k-1.
C17_CrossoverRule ==
    (/\ strategyId = "simpleMovingAverage"
     /\ signal # NoResult
     /\ Len(candles) >= 21) =>
        LET k == Len(candles)
        IN  /\ signal.action = "BUY" <=> CrossingUp(k)
            /\ signal.action = "SELL" <=> CrossingDown(k)
            /\ signal.action = "HOLD" <=> ~CrossingUp(k) /\ ~CrossingDown(k)
            /\ CrossingUp(k) /\ previous # NoResult => previous.action # "BUY"

\* C17 witness: the short average crosses above the long one at the last of
\* 22 candles; BUY was returned there and the 21-candle window before it
\* had been evaluated
C17_Witness ==
    /\ strategyId = "simpleMovingAverage"
    /\ Len(candles) = 22
    /\ CrossingUp(22)
    /\ signal.action = "BUY"
    /\ previous.action = "HOLD"

\* every firing the run gives bot r has been answered with a strictly rising
\* series of closes, long enough for both averages, and has run to its end
\* without a failure
RisingRunOver(r) ==
    \A k \in TickIds :
        /\ ticks[r][k].pc = "done"
        /\ ticks[r][k].rising
        /\ ~ContainsInsufficientData(ticks[r][k].reason)
        /\ ticks[r][k].statusEv = 1

\* C18: a bot started with symbol BNBUSDT, the crossover strategy, amount 0.1
\* (1, in tenths) and interval 15m, run against a Gateway whose price series
\* is monotonically increasing, has emitted exactly one trade-executed event
\* when the run is over, for a BUY of 0.1 BNBUSDT.
C18_RisingSeriesOneBuy ==
    \A r \in StartIds :
        starts[r].config = ValidConfig /\ RisingRunOver(r) =>
            /\ events[r].tradeExecuted = 1
            /\ \A id \in TradesOf(starts[r].botId) :
                   /\ trades[id].side = "BUY"
                   /\ trades[id].symbol = "BNBUSDT"
                   /\ trades[id].quantity = 1

\* a strategy id the strategy switch has no case for
UnknownStrategy(r) == starts[r].config.strategy \notin BuiltInStrategies

\* C19: a tick for a bot whose strategy id is not a known strategy does not
\* fail: its signal is HOLD with an "unknown strategy" reason, no trade is
\* recorded, tradesExecuted is unchanged, the state is persisted (handed to
\* saveSetting) and, once that save has completed, a status event and no
\* error event is emitted.
C19_UnknownStrategyHolds ==
    /\ [][\A r \in StartIds : \A k \in TickIds :
             (/\ UnknownStrategy(r)
              /\ ticks[r][k].pc = "fetching"
              /\ ticks'[r][k].pc # "fetching"
              /\ ~ticks'[r][k].failed) =>
                 /\ ticks'[r][k].action = "HOLD"
                 /\ ticks'[r][k].reason = "Unknown strategy"
                 /\ ticks'[r][k].pc = "savingState"
                 /\ trades' = trades
                 /\ botState'[r].tradesExecuted = botState[r].tradesExecuted
                 /\ botState'[r].lastSignal = "HOLD"
                 /\ Key("bot_state", starts[r].botId, 0) \in DOMAIN settings'
                 /\ settings'[Key("bot_state", starts[r].botId, 0)].lastSignal = "HOLD"
                 /\ events' = events]_vars
    /\ [][\A r \in StartIds : \A k \in TickIds :
             (/\ UnknownStrategy(r)
              /\ ticks[r][k].pc = "savingState"
              /\ ticks'[r][k].pc = "done") =>
                 /\ events'[r].running = events[r].running + 1
                 /\ events'[r].tickError = events[r].tickError
                 /\ events'[r].tradeExecuted = events[r].tradeExecuted]_vars
    /\ [](\A r \in StartIds : \A k \in TickIds :
             UnknownStrategy(r) /\ ~ticks[r][k].failed =>
                 /\ ticks[r][k].tradeEv = 0
                 /\ ticks[r][k].pc = "done" /\ ticks[r][k].errorEv = 0
                    /\ ~ticks[r][k].uncaught => ticks[r][k].statusEv = 1)

\* C19 witness: a tick of a bot with an unknown strategy id has ended with
\* its status event
C19_Witness ==
    \E r \in StartIds : \E k \in TickIds :
        /\ UnknownStrategy(r)
        /\ ticks[r][k].pc = "done"
        /\ ticks[r][k].reason = "Unknown strategy"
        /\ ticks[r][k].statusEv = 1
        /\ Key("bot_state", starts[r].botId, 0) \in DOMAIN settings

\* the oscillator's index for the current window: the last value of
\* calculateRSI, 100 * gain / (gain + loss), compared with a threshold
RSIIndex == calculateRSI(candles, RSIPeriod)[Len(calculateRSI(candles, RSIPeriod))]

IndexBelow(threshold) ==
    100 * RSIIndex.gain < threshold * (RSIIndex.gain + RSIIndex.loss)

IndexAbove(threshold) ==
    100 * RSIIndex.gain > threshold * (RSIIndex.gain + RSIIndex.loss)

\* C20: the oscillator strategy (RSI, lookback 14) returns BUY when the index
\* is below 30, SELL when it is above 70 and HOLD otherwise, for every window
\* of at least lookback + 1 candles (windows of 15 to 17 candles here).
C20_OscillatorThresholds ==
    (/\ strategyId = "relativeStrengthIndex"
     /\ signal # NoResult
     /\ Len(candles) \in (RSIPeriod + 1)..(RSIPeriod + 3)) =>
        signal.action = IF IndexBelow(30) THEN "BUY"
                        ELSE IF IndexAbove(70) THEN "SELL" ELSE "HOLD"

\* the 20 most recent closes, the band strategy's window
BandCloses == SubSeq(candles, Len(candles) - 19, Len(candles))

BandSquares == SumSeq([i \in 1..20 |-> BandCloses[i] * BandCloses[i]])

\* 400 times the variance of the window: 20 * sum(x^2) - (sum x)^2
BandVariance == 20 * BandSquares - SumSeq(BandCloses) * SumSeq(BandCloses)

\* 20 times (mean - price); the band lies 2 standard deviations from the mean,
\* so price <= mean - 2 sd iff 20 (mean - price) >= 0 and its square is at
\* least 4 * 400 * variance
BandOffset == SumSeq(BandCloses) - 20 * CurrentPrice

AtOrBelowLowerBand ==
    BandOffset >= 0 /\ BandOffset * BandOffset >= 4 * BandVariance

AtOrAboveUpperBand ==
    BandOffset <= 0 /\ BandOffset * BandOffset >= 4 * BandVariance

\* C21: the band strategy (window 20, 2 standard deviations) returns BUY when
\* the current price is at or below the lower band, SELL when it is at or
\* above the upper band and HOLD otherwise, on every window of at least 20
\* candles whose closes are not all equal.
C21_BandRule ==
    (/\ strategyId = "bollingerBands"
     /\ signal # NoResult
     /\ Len(candles) >= 20
     /\ BandVariance > 0) =>
        signal.action = IF AtOrBelowLowerBand THEN "BUY"
                        ELSE IF AtOrAboveUpperBand THEN "SELL" ELSE "HOLD"

\* a Gateway call of a tick of bot r has not answered yet
Stalled(r) == \E k \in TickIds : ticks[r][k].pc = "fetching"

\* the next firing of bot r's job, if the run takes one
NextFiring(r) ==
    {k \in TickIds : /\ ticks[r][k].pc = "idle"
                     /\ \A j \in TickIds : j < k => ticks[r][j].pc # "idle"
                     /\ FiredTicks < MaxTicks
                     /\ FiringFits}

\* C22: ticks of different bots do not block each other: while a Gateway call
\* of bot a's tick is stalled, the job of any other scheduled bot b can fire,
\* and a tick of b can take its next step at every point up to persisting its
\* state and emitting its status event.
C22_TicksDoNotBlock ==
    \A a \in StartIds, b \in StartIds :
        (a # b /\ Stalled(a)) =>
            /\ \A k \in NextFiring(b) :
                   job[b] = "scheduled" => ENABLED TickFire(b, k)
            /\ \A k \in TickIds :
                   /\ ticks[b][k].pc = "fetching" =>
                          ENABLED (\E w \in CandleWindows : TickFetchOk(b, k, w))
                   /\ ticks[b][k].pc = "savingTrade" => ENABLED TickTradeSaved(b, k)
                   /\ ticks[b][k].pc = "savingState" => ENABLED TickStateSaved(b, k)

\* bot a's tick is stalled in its Gateway call, and a tick of bot b has fired,
\* persisted its state and emitted its status event
C22_Witness ==
    \E a \in StartIds, b \in StartIds :
        /\ a # b
        /\ ticks[a][1].pc = "fetching"
        /\ ticks[b][1].pc = "done"
        /\ ticks[b][1].statusEv = 1
        /\ events[b].running = 1
        /\ Key("bot_state", starts[b].botId, 0) \in DOMAIN settings

\* the store key of bot r's BotState
StateKey(r) == Key("bot_state", starts[r].botId, 0)

\* C23: after every tick, whether it succeeded or failed, the bot's BotState
\* is persisted under its state key with lastCheck set by a tick; and a tick
\* whose Gateway call failed changes nothing of the persisted state other
\* than lastCheck and lastSignal.
C23_StatePersistedAfterEveryTick ==
    /\ [][\A r \in StartIds, k \in TickIds :
            (ticks[r][k].pc # "done" /\ ticks'[r][k].pc = "done") =>
                /\ StateKey(r) \in DOMAIN settings'
                /\ settings'[StateKey(r)].lastCheck # NoCheck]_vars
    /\ [][\A r \in StartIds, k \in TickIds :
            (ticks[r][k].failed /\ StateKey(r) \in DOMAIN settings
                /\ ticks[r][k].pc # "done" /\ ticks'[r][k].pc = "done") =>
                /\ StateKey(r) \in DOMAIN settings'
                /\ [settings'[StateKey(r)] EXCEPT !.lastCheck = NoCheck,
                                                 !.lastSignal = NoSignal]
                     = [settings[StateKey(r)] EXCEPT !.lastCheck = NoCheck,
                                                    !.lastSignal = NoSignal]]_vars

\* C24: no failure inside a tick escapes the tick handler: every tick that
\* fails at any step (Gateway call, saving the trade, the state or the error
\* record) ends with an error event for its bot and without an uncaught
\* rejection.
C24_NoFailureEscapesTick ==
    \A r \in StartIds, k \in TickIds :
        /\ ~ticks[r][k].uncaught
        /\ (ticks[r][k].pc = "done" /\ ticks[r][k].statusEv = 0) =>
               ticks[r][k].errorEv = 1

\* C25: TradeRecords are append-only: every step that persists a TradeRecord
\* adds it under an id no earlier record has, and no step of a start, a tick
\* or a stop changes or removes a record that is already there.
C25_TradesAppendOnly ==
    [][/\ DOMAIN trades \subseteq DOMAIN trades'
       /\ \A id \in DOMAIN trades : trades'[id] = trades[id]
       /\ \A r \in StartIds, k \in TickIds :
              (ticks[r][k].pc = "fetching" /\ ticks'[r][k].pc = "savingTrade") =>
                  DOMAIN trades' # DOMAIN trades]_vars

\* the start handler of request r has returned
StartEnded(r) == starts[r].pc \in {"rejected", "probeFailed", "done", "crashed"}

\* replies sent for start request r: started status events and error events
StartReplies(r) == events[r].started + events[r].startError

\* C26: every start request gets exactly one reply, a started status event
\* or an error event: once the start handler has returned, for whatever
\* config and at whatever step it ended, exactly one reply has been sent for
\* the request, and never more than one.
C26_EveryStartReplies ==
    \A r \in StartIds :
        /\ StartReplies(r) <= 1
        /\ StartEnded(r) => StartReplies(r) = 1

\* every save that was called has returned or thrown
AllSavesComplete ==
    /\ \E w \in Writers : saves[w].pc # "idle"
    /\ \A w \in Writers : saves[w].pc \in {"idle", "done", "failed"}

\* C27: store writes are atomic under concurrency: however the steps of
\* concurrent saveSetting calls interleave, none of them fails, and once all
\* of them have completed the database file holds every written value (it
\* equals the cache).
C27_StoreWritesAtomic ==
    /\ \A w \in Writers : saves[w].pc # "failed"
    /\ AllSavesComplete => file = settings

\* C28: registry and schedules stay consistent: in every reachable state a
\* bot has a live recurring trigger (a job that is neither null nor
\* cancelled) if and only if it is in the registry.
C28_RegistryMatchesSchedules ==
    \A r \in StartIds : (job[r] = "scheduled") <=> OwnsEntry(r)

\* C29: start runs no tick as part of starting: for every bot, the started
\* status event is emitted before any status, trade-executed or error event
\* that a tick of the bot produces.
C29_StartedBeforeTickEvents ==
    \A r \in StartIds :
        (events[r].running + events[r].tradeExecuted + events[r].tickError > 0) =>
            events[r].started > 0

\* C30: whenever no tick of a bot is in flight, the bot's tradesExecuted
\* equals the number of trade-executed events emitted for it and the number
\* of TradeRecords persisted with its botId.
C30_TradeCountsAgree ==
    \A r \in StartIds :
        (starts[r].pc # "idle" /\ \A k \in TickIds : ~InFlight(r, k)) =>
            /\ botState[r].tradesExecuted = events[r].tradeExecuted
            /\ botState[r].tradesExecuted = Cardinality(TradesOf(starts[r].botId))

====
